---- MODULE Spec2Model ----
(***************************************************************************)
(* The campaign / donation state machine of the crowdfunding contracts     *)
(* FHEAnonymousCrowdfunding and PrivacyCrowdfunding.                       *)
(*                                                                         *)
(* Each external function of the contract is an operator from a contract   *)
(* state (a record of the storage variables and the contract's balance)    *)
(* and the call's inputs to the call's outcome: the state after the call,  *)
(* the revert reason ("" when the call succeeds), the value paid out and   *)
(* the event emitted.  A require that fails reverts the transaction:       *)
(* the outcome holds the state the call started from.  The actions apply   *)
(* these operators to the current state, one transaction per step.         *)
(*                                                                         *)
(* A reverted call leaves no trace in the contract: it is a step that      *)
(* changes no variable.  What a call would do in a state, failed calls     *)
(* included, is read off the function's operator applied to that state.    *)
(* The history variables record what the accounts sent and were paid; no   *)
(* function reads them.                                                    *)
(*                                                                         *)
(* msg.sender is never address(0): no transaction is signed by it.         *)
(* block.timestamp advances a day at a time, so that a campaign is seen    *)
(* before, exactly at and after its deadline.  The amounts stay far below  *)
(* 2^256: no addition or multiplication overflows.  Value sent to the      *)
(* contract outside donate (receive, fallback) only adds to the balance    *)
(* and is left out.                                                        *)
(*                                                                         *)
(* Two smaller parts of the repository follow the same pattern, each with  *)
(* a specification of its own: the contract BasicCrowdfunding (SpecBasic)  *)
(* and the front end's encryption utility fhe.ts (SpecFhe).                *)
(***************************************************************************)
EXTENDS Integers, Sequences, FiniteSets, TLC

\* ---------------------------------------------------------------- bounds
MaxEvents == 4        \* campaigns created + donations accepted + days elapsed

\* ------------------------------------------------------ program constants
PLATFORM_FEE == 10    \* FHEAnonymousCrowdfunding: 1% (10/1000)
platformFee == 10     \* PrivacyCrowdfunding: storage variable, never written
DAY == 86400          \* Solidity's `1 days`, in seconds
Address0 == 0         \* address(0)

\* ------------------------------------------------------------ input sets
Accounts == {1, 2}                    \* externally owned or contract accounts
Variants == {"FHE", "Privacy"}
CampaignIds == 0 .. MaxEvents         \* at least one id is never allocated
Titles == {"", "T"}
Descriptions == {"", "D"}
Categories == {"C"}
Goals == {0, 100}
Durations == {0, 1, 366}
Amounts == {0, 30, 100}
CampaignFlags == {TRUE}                \* createCampaign's _isAnonymous

VARIABLES
    variant,            \* which of the two contracts is deployed
    now,                \* block.timestamp
    campaigns,          \* mapping(uint256 => Campaign)
    campaignDonations,  \* mapping(uint256 => Donation[])
    userCampaigns,      \* mapping(address => uint256[])
    userDonations,      \* mapping(address => uint256[])
    campaignCounter,
    totalCampaigns,
    totalDonations,
    balance,            \* address(this).balance
    donatedTo,          \* history: value c took in successful donate calls
    sentPublic,         \* history: value a gave to c in non-anonymous donations
    refundedTo,         \* history: value refunded to a from c
    withdrawnTo,        \* history: value paid to the creator of c
    publicDonates,      \* history: successful non-anonymous donate calls of a
    withdrawals,        \* history: successful withdrawFunds calls on c
    basic,              \* BasicCrowdfunding: its storage and its balance
    basicDonations,     \* history: successful donate calls on BasicCrowdfunding
    fhevmInstance,      \* fhe.ts: the module variable `fhevmInstance`
    encrypted           \* history: the <<amount, string>> of each encryptAmount call

storage == <<campaigns, campaignDonations, userCampaigns, userDonations,
             campaignCounter, totalCampaigns, totalDonations, balance>>
history == <<donatedTo, sentPublic, refundedTo, withdrawnTo, publicDonates,
             withdrawals>>
\* The contract BasicCrowdfunding and the front end's fhe.ts: each has a
\* specification of its own (SpecBasic, SpecFhe), and stands still in Spec.
others == <<basic, basicDonations, fhevmInstance, encrypted>>
vars == <<variant, now, storage, history, others>>

\* ------------------------------------------------------------ data types
\* The value of an unwritten mapping slot.
ZeroCampaign ==
    [id |-> 0, creator |-> Address0, title |-> "", description |-> "",
     category |-> "", goal |-> 0, raised |-> 0, deadline |-> 0,
     isActive |-> FALSE, goalReached |-> FALSE, fundsWithdrawn |-> FALSE,
     isAnonymous |-> FALSE]

NoEvent == <<>>
OK == ""

\* BasicCrowdfunding's Campaign struct in an unwritten mapping slot.
BasicZeroCampaign ==
    [creator |-> Address0, title |-> "", goal |-> 0, raised |-> 0,
     deadline |-> 0, isActive |-> FALSE]

\* BasicCrowdfunding right after its deployment.
BasicDeployed ==
    [campaigns |-> [c \in CampaignIds |-> BasicZeroCampaign],
     donations |-> [c \in CampaignIds |-> [a \in Accounts |-> 0]],
     campaignCounter |-> 0, balance |-> 0]

\* fhe.ts: `let fhevmInstance: any = null`; an object with no property.
null == [null |-> TRUE]

\* The contract state the functions read and write.
State ==
    [campaigns |-> campaigns, campaignDonations |-> campaignDonations,
     userCampaigns |-> userCampaigns, userDonations |-> userDonations,
     campaignCounter |-> campaignCounter, totalCampaigns |-> totalCampaigns,
     totalDonations |-> totalDonations, balance |-> balance]

\* Mutant: a counter written before the failing require survives the revert.
RevertKeepsWrite(s, reason) ==
    [s |-> [s EXCEPT !.totalDonations = @ + 1], err |-> reason, paid |-> 0,
     ret |-> 0, event |-> NoEvent]

\* A failed require: every write of the transaction is undone.
Revert(s, reason) ==
    [s |-> s, err |-> reason, paid |-> 0, ret |-> 0, event |-> NoEvent]

Success(s, paid, ret, event) ==
    [s |-> s, err |-> OK, paid |-> paid, ret |-> ret, event |-> event]

\* -------------------------------------------------------------- modifiers
\* Mutant: the modifier lets every caller through.
onlyCampaignCreatorAnyone(s, sender, campaignId) ==
    TRUE

onlyCampaignCreator(s, sender, campaignId) ==
    s.campaigns[campaignId].creator = sender

\* Mutant: the modifier lets the next id through.
campaignExistsInclusive(s, campaignId) ==
    campaignId <= s.campaignCounter

campaignExists(s, campaignId) ==
    campaignId < s.campaignCounter

\* Mutant: the modifier still lets a call through at the deadline.
campaignActiveAtDeadline(s, t, campaignId) ==
    IF ~s.campaigns[campaignId].isActive THEN "Campaign not active"
    ELSE IF ~(t <= s.campaigns[campaignId].deadline) THEN "Campaign ended"
    ELSE OK

\* Mutant: the modifier also closes a campaign that reached its goal.
campaignActiveStopsAtGoal(s, t, campaignId) ==
    IF ~s.campaigns[campaignId].isActive THEN "Campaign not active"
    ELSE IF s.campaigns[campaignId].goalReached THEN "Campaign not active"
    ELSE IF ~(t < s.campaigns[campaignId].deadline) THEN "Campaign ended"
    ELSE OK

\* The reason campaignActive reverts with, OK when it lets the call through.
campaignActive(s, t, campaignId) ==
    IF ~s.campaigns[campaignId].isActive THEN "Campaign not active"
    ELSE IF ~(t < s.campaigns[campaignId].deadline) THEN "Campaign ended"
    ELSE OK

\* --------------------------------------------------------- createCampaign
\* Mutant: the longest duration is refused.
createChecksBelow365(title, description, goal, durationDays) ==
    IF ~(Len(title) > 0) THEN "Title cannot be empty"
    ELSE IF ~(Len(description) > 0) THEN "Description cannot be empty"
    ELSE IF ~(goal > 0) THEN "Goal must be greater than 0"
    ELSE IF ~(durationDays > 0 /\ durationDays < 365) THEN "Invalid duration"
    ELSE OK

\* The requires at the head of createCampaign: the reason of the first that
\* fails.
createChecks(title, description, goal, durationDays) ==
    IF ~(Len(title) > 0) THEN "Title cannot be empty"
    ELSE IF ~(Len(description) > 0) THEN "Description cannot be empty"
    ELSE IF ~(goal > 0) THEN "Goal must be greater than 0"
    ELSE IF ~(durationDays > 0 /\ durationDays <= 365) THEN "Invalid duration"
    ELSE OK

createCampaign(s, v, sender, t, title, description, category, goal, durationDays, isAnonymous) ==
    IF createChecks(title, description, goal, durationDays) # OK
    THEN Revert(s, createChecks(title, description, goal, durationDays))
    ELSE
        LET campaignId == s.campaignCounter
            deadline == t + (durationDays * DAY)
            campaign ==
                [id |-> campaignId, creator |-> sender, title |-> title,
                 description |-> description, category |-> category,
                 goal |-> goal, raised |-> 0, deadline |-> deadline,
                 isActive |-> TRUE, goalReached |-> FALSE,
                 fundsWithdrawn |-> FALSE,
                 isAnonymous |-> IF v = "FHE" THEN isAnonymous ELSE FALSE]
            s1 == [s EXCEPT
                     !.campaignCounter = @ + 1,
                     !.campaigns[campaignId] = campaign,
                     !.userCampaigns[sender] = Append(@, campaignId),
                     !.totalCampaigns = @ + 1]
        IN  Success(s1, 0, campaignId,
                    <<"CampaignCreated", campaignId, sender, title, goal,
                      deadline>>)

\* ----------------------------------------------------------------- donate
\* Mutant: the record keeps the sender whatever the flag says.
donorAddressKeepsSender(sender, isAnonymous) ==
    sender

\* The donor address a donation record and the DonationMade event carry.
donorAddress(sender, isAnonymous) ==
    IF isAnonymous THEN Address0 ELSE sender

\* Mutant: the goal counts as reached only once it is exceeded.
checkGoalStrict(campaign) ==
    IF campaign.raised > campaign.goal /\ ~campaign.goalReached
    THEN [campaign EXCEPT !.goalReached = TRUE]
    ELSE campaign

\* `if (raised >= goal && !goalReached) goalReached = true`
checkGoal(campaign) ==
    IF campaign.raised >= campaign.goal /\ ~campaign.goalReached
    THEN [campaign EXCEPT !.goalReached = TRUE]
    ELSE campaign

\* Mutant: every donation is pushed to the sender's index.
recordUserDonationAlways(userDons, sender, campaignId, isAnonymous) ==
    [userDons EXCEPT ![sender] = Append(@, campaignId)]

\* `if (!_isAnonymous) userDonations[msg.sender].push(_campaignId)`
recordUserDonation(userDons, sender, campaignId, isAnonymous) ==
    IF ~isAnonymous
    THEN [userDons EXCEPT ![sender] = Append(@, campaignId)]
    ELSE userDons

donate(s, sender, t, campaignId, isAnonymous, value) ==
    IF ~campaignExists(s, campaignId) THEN Revert(s, "Campaign does not exist")
    ELSE IF campaignActive(s, t, campaignId) # OK
         THEN Revert(s, campaignActive(s, t, campaignId))
    ELSE IF ~(value > 0) THEN Revert(s, "Donation must be greater than 0")
    ELSE
        LET campaign == checkGoal([s.campaigns[campaignId] EXCEPT
                                     !.raised = @ + value])
            newDonation ==
                [campaignId |-> campaignId,
                 donor |-> donorAddress(sender, isAnonymous),
                 amount |-> value, timestamp |-> t,
                 isAnonymous |-> isAnonymous]
            s1 == [s EXCEPT
                     !.balance = @ + value,
                     !.campaigns[campaignId] = campaign,
                     !.campaignDonations[campaignId] = Append(@, newDonation),
                     !.userDonations = recordUserDonation(@, sender, campaignId,
                                                          isAnonymous),
                     !.totalDonations = @ + 1]
        IN  Success(s1, 0, 0,
                    <<"DonationMade", campaignId,
                      donorAddress(sender, isAnonymous), value, isAnonymous>>)

\* ---------------------------------------------------------- withdrawFunds
TransferFailed == "transfer reverted"
\* Solidity 0.8 checked arithmetic: an underflow reverts with Panic(0x11).
ArithmeticPanic == "Panic(0x11)"

\* Mutant: `send` in place of `transfer`, its result ignored: a failed
\* payment does not revert.
transferUnchecked(s, amount, accepts) ==
    IF s.balance >= amount /\ accepts
    THEN [ok |-> TRUE, s |-> [s EXCEPT !.balance = @ - amount]]
    ELSE [ok |-> TRUE, s |-> s]

\* Mutant: the payment empties the contract (`address(this).balance` sent in
\* place of the amount).
transferWholeBalance(s, amount, accepts) ==
    IF s.balance >= amount /\ accepts
    THEN [ok |-> TRUE, s |-> [s EXCEPT !.balance = 0]]
    ELSE [ok |-> FALSE, s |-> s]

\* `payable(to).transfer(amount)`: pays, or fails when the balance is short or
\* the recipient does not accept the value within the 2300 gas stipend (which
\* also leaves it no gas to call back into the contract).
transfer(s, amount, accepts) ==
    IF s.balance >= amount /\ accepts
    THEN [ok |-> TRUE, s |-> [s EXCEPT !.balance = @ - amount]]
    ELSE [ok |-> FALSE, s |-> s]

\* The fee rate of the deployed contract, in thousandths.
feeRate(v) ==
    IF v = "FHE" THEN PLATFORM_FEE ELSE platformFee

\* Mutant: the division is done before the multiplication.
feeDividedFirst(v, raised) ==
    (raised \div 1000) * feeRate(v)

\* `(campaign.raised * PLATFORM_FEE) / 1000`
fee(v, raised) ==
    (raised * feeRate(v)) \div 1000

\* Mutant: the `!fundsWithdrawn` require is missing.
withdrawChecksNoGuard(campaign) ==
    IF ~campaign.goalReached THEN "Goal not reached"
    ELSE IF ~(campaign.raised > 0) THEN "No funds to withdraw"
    ELSE OK

\* The requires of withdrawFunds' body: the reason of the first that fails.
withdrawChecks(campaign) ==
    IF ~campaign.goalReached THEN "Goal not reached"
    ELSE IF ~(~campaign.fundsWithdrawn) THEN "Funds already withdrawn"
    ELSE IF ~(campaign.raised > 0) THEN "No funds to withdraw"
    ELSE OK

\* Mutant: the campaign stays active after the withdrawal.
markWithdrawnStaysActive(campaign) ==
    [campaign EXCEPT !.fundsWithdrawn = TRUE]

\* Mutant: the second assignment clears the wrong flag.
markWithdrawnWrongFlag(campaign) ==
    [campaign EXCEPT !.fundsWithdrawn = TRUE, !.goalReached = FALSE]

\* `fundsWithdrawn = true; isActive = false`
markWithdrawn(campaign) ==
    [campaign EXCEPT !.fundsWithdrawn = TRUE, !.isActive = FALSE]

\* Mutant: the flags are not written before the transfer.
withdrawCommitNothing(s, campaignId) ==
    s

\* The contract state at the transfer of withdrawFunds: the writes of the call
\* are made, the value has not left.
withdrawCommit(s, campaignId) ==
    [s EXCEPT !.campaigns[campaignId] = markWithdrawn(@)]

withdrawFunds(s, v, sender, campaignId, accepts) ==
    IF ~campaignExists(s, campaignId) THEN Revert(s, "Campaign does not exist")
    ELSE IF ~onlyCampaignCreator(s, sender, campaignId)
         THEN Revert(s, "Not campaign creator")
    ELSE IF withdrawChecks(s.campaigns[campaignId]) # OK
         THEN Revert(s, withdrawChecks(s.campaigns[campaignId]))
    ELSE
        LET s1 == withdrawCommit(s, campaignId)
            campaign == s1.campaigns[campaignId]
            withdrawAmount == campaign.raised - fee(v, campaign.raised)
            x == transfer(s1, withdrawAmount, accepts)
        IN  IF ~x.ok THEN Revert(s, TransferFailed)
            ELSE Success(x.s, withdrawAmount, 0,
                         <<"FundsWithdrawn", campaignId, sender, withdrawAmount>>)

\* ----------------------------------------------------------------- refund
\* Mutant: the loop does not compare the record's donor with the caller.
refundableAnyDonor(v, donation, sender) ==
    donation.amount > 0

\* Mutant: the caller also collects the records that name no donor.
refundableAnonymousToo(v, donation, sender) ==
    (donation.donor = sender \/ donation.donor = Address0)
        /\ donation.amount > 0

\* The loop's test of one record: FHEAnonymousCrowdfunding also skips the
\* records already zeroed, PrivacyCrowdfunding adds their 0.
refundable(v, donation, sender) ==
    IF v = "FHE"
    THEN donation.donor = sender /\ donation.amount > 0
    ELSE donation.donor = sender

\* Mutant: the loop deletes the record (`delete donations[i]`) in place of
\* zeroing its amount.
RECURSIVE refundLoopDeletesRecord(_, _, _, _, _)
refundLoopDeletesRecord(v, donations, sender, i, refundAmount) ==
    IF ~(i <= Len(donations))
    THEN [refundAmount |-> refundAmount, donations |-> donations]
    ELSE IF refundable(v, donations[i], sender)
         THEN refundLoopDeletesRecord(
                  v,
                  [donations EXCEPT
                     ![i] = [campaignId |-> 0, donor |-> Address0,
                             amount |-> 0, timestamp |-> 0,
                             isAnonymous |-> FALSE]],
                  sender, i + 1, refundAmount + donations[i].amount)
         ELSE refundLoopDeletesRecord(v, donations, sender, i + 1,
                                      refundAmount)

\* Mutant: the loop sums the caller's records and does not zero them.
RECURSIVE refundLoopNoZeroing(_, _, _, _, _)
refundLoopNoZeroing(v, donations, sender, i, refundAmount) ==
    IF ~(i <= Len(donations))
    THEN [refundAmount |-> refundAmount, donations |-> donations]
    ELSE IF donations[i].donor = sender /\ donations[i].amount > 0
         THEN refundLoopNoZeroing(v, donations, sender, i + 1,
                                  refundAmount + donations[i].amount)
         ELSE refundLoopNoZeroing(v, donations, sender, i + 1, refundAmount)

\* `for (i = 0; i < donations.length; i++)`, records here numbered from 1.
RECURSIVE refundLoop(_, _, _, _, _)
refundLoop(v, donations, sender, i, refundAmount) ==
    IF ~(i <= Len(donations))
    THEN [refundAmount |-> refundAmount, donations |-> donations]
    ELSE IF refundable(v, donations[i], sender)
         THEN refundLoop(v, [donations EXCEPT ![i].amount = 0], sender, i + 1,
                         refundAmount + donations[i].amount)
         ELSE refundLoop(v, donations, sender, i + 1, refundAmount)

\* Mutant: the refund forgets to take the amount off `raised`.
debitRaisedForgotten(campaign, refundAmount) ==
    campaign

\* `campaign.raised -= refundAmount`
debitRaised(campaign, refundAmount) ==
    [campaign EXCEPT !.raised = @ - refundAmount]

\* Mutant: refund also requires the campaign to be active.
refundChecksNeedsActive(campaign, t) ==
    IF ~campaign.isActive THEN "Campaign not active"
    ELSE IF ~(t >= campaign.deadline) THEN "Campaign still active"
    ELSE IF ~(~campaign.goalReached) THEN "Goal was reached"
    ELSE IF ~(~campaign.fundsWithdrawn) THEN "Funds already withdrawn"
    ELSE OK

\* Mutant: the `!goalReached` require is missing.
refundChecksNoGoal(campaign, t) ==
    IF ~(t >= campaign.deadline) THEN "Campaign still active"
    ELSE IF ~(~campaign.fundsWithdrawn) THEN "Funds already withdrawn"
    ELSE OK

\* The requires at the head of refund: the reason of the first that fails.
refundChecks(campaign, t) ==
    IF ~(t >= campaign.deadline) THEN "Campaign still active"
    ELSE IF ~(~campaign.goalReached) THEN "Goal was reached"
    ELSE IF ~(~campaign.fundsWithdrawn) THEN "Funds already withdrawn"
    ELSE OK

\* The contract state at the transfer of refund: the caller's records are
\* zeroed and their sum is off raised, the value has not left.
refundCommit(s, v, sender, campaignId) ==
    LET loop == refundLoop(v, s.campaignDonations[campaignId], sender, 1, 0)
    IN  [s EXCEPT !.campaignDonations[campaignId] = loop.donations,
                  !.campaigns[campaignId] = debitRaised(@, loop.refundAmount)]

refund(s, v, sender, t, campaignId, accepts) ==
    IF ~campaignExists(s, campaignId) THEN Revert(s, "Campaign does not exist")
    ELSE IF refundChecks(s.campaigns[campaignId], t) # OK
         THEN Revert(s, refundChecks(s.campaigns[campaignId], t))
    ELSE
        LET loop == refundLoop(v, s.campaignDonations[campaignId], sender, 1, 0)
            refundAmount == loop.refundAmount
            s1 == [s EXCEPT !.campaignDonations[campaignId] = loop.donations]
        IN  IF ~(refundAmount > 0) THEN Revert(s, "No donations to refund")
            ELSE IF refundAmount > s1.campaigns[campaignId].raised
                 THEN Revert(s, ArithmeticPanic)
            ELSE
                LET s2 == refundCommit(s, v, sender, campaignId)
                    x == transfer(s2, refundAmount, accepts)
                IN  IF ~x.ok THEN Revert(s, TransferFailed)
                    ELSE Success(x.s, refundAmount, 0,
                                 <<"RefundIssued", campaignId, sender,
                                   refundAmount>>)

\* ------------------------------------------------------------------ views
\* A view: the call's outcome holds the record returned and the state as is.
getCampaign(s, campaignId) ==
    IF ~campaignExists(s, campaignId) THEN Revert(s, "Campaign does not exist")
    ELSE Success(s, 0, s.campaigns[campaignId], NoEvent)

\* Mutant: the loop passes over the records already refunded.
RECURSIVE statsLoopSkipsRefunded(_, _, _, _)
statsLoopSkipsRefunded(donations, i, anonCount, publicCount) ==
    IF ~(i <= Len(donations))
    THEN [anonCount |-> anonCount, publicCount |-> publicCount]
    ELSE IF donations[i].amount = 0
         THEN statsLoopSkipsRefunded(donations, i + 1, anonCount, publicCount)
    ELSE IF donations[i].isAnonymous
         THEN statsLoopSkipsRefunded(donations, i + 1, anonCount + 1,
                                     publicCount)
         ELSE statsLoopSkipsRefunded(donations, i + 1, anonCount,
                                     publicCount + 1)

\* The loop of getAnonymousStats, records here numbered from 1.
RECURSIVE statsLoop(_, _, _, _)
statsLoop(donations, i, anonCount, publicCount) ==
    IF ~(i <= Len(donations))
    THEN [anonCount |-> anonCount, publicCount |-> publicCount]
    ELSE IF donations[i].isAnonymous
         THEN statsLoop(donations, i + 1, anonCount + 1, publicCount)
         ELSE statsLoop(donations, i + 1, anonCount, publicCount + 1)

\* A view returning (anonymousDonations, publicDonations, totalDonationCount).
getAnonymousStats(s, campaignId) ==
    IF ~campaignExists(s, campaignId) THEN Revert(s, "Campaign does not exist")
    ELSE
        LET donations == s.campaignDonations[campaignId]
            counts == statsLoop(donations, 1, 0, 0)
        IN  Success(s, 0,
                    <<counts.anonCount, counts.publicCount, Len(donations)>>,
                    NoEvent)

\* Mutant: a campaign is still listed at its deadline.
listedAtInclusive(campaign, t) ==
    campaign.isActive /\ t <= campaign.deadline

\* `campaigns[i].isActive && block.timestamp < campaigns[i].deadline`
listedAt(campaign, t) ==
    campaign.isActive /\ t < campaign.deadline

\* The first loop of getAllActiveCampaigns, over the ids from i on.
RECURSIVE countActive(_, _, _, _)
countActive(s, t, i, activeCount) ==
    IF ~(i < s.campaignCounter) THEN activeCount
    ELSE IF listedAt(s.campaigns[i], t)
         THEN countActive(s, t, i + 1, activeCount + 1)
         ELSE countActive(s, t, i + 1, activeCount)

\* The second loop: activeCampaigns[index] = campaigns[i]; index++.  The
\* array is numbered from 1 here.
RECURSIVE fillActive(_, _, _, _, _)
fillActive(s, t, i, activeCampaigns, index) ==
    IF ~(i < s.campaignCounter) THEN activeCampaigns
    ELSE IF listedAt(s.campaigns[i], t)
         THEN fillActive(s, t, i + 1,
                         [activeCampaigns EXCEPT ![index + 1] = s.campaigns[i]],
                         index + 1)
         ELSE fillActive(s, t, i + 1, activeCampaigns, index)

\* A view: `new Campaign[](activeCount)` is an array of zero records.
getAllActiveCampaigns(s, t) ==
    LET activeCount == countActive(s, t, 0, 0)
        activeCampaigns == [k \in 1 .. activeCount |-> ZeroCampaign]
    IN  Success(s, 0, fillActive(s, t, 0, activeCampaigns, 0), NoEvent)

\* --------------------------------------------------------- emergencyPause
\* Mutant: the creator's call flips isActive.
emergencyPauseToggles(s, sender, campaignId) ==
    IF ~campaignExists(s, campaignId) THEN Revert(s, "Campaign does not exist")
    ELSE IF ~onlyCampaignCreator(s, sender, campaignId)
         THEN Revert(s, "Not campaign creator")
    ELSE Success([s EXCEPT !.campaigns[campaignId].isActive = ~@],
                 0, 0, NoEvent)

emergencyPause(s, sender, campaignId) ==
    IF ~campaignExists(s, campaignId) THEN Revert(s, "Campaign does not exist")
    ELSE IF ~onlyCampaignCreator(s, sender, campaignId)
         THEN Revert(s, "Not campaign creator")
    ELSE Success([s EXCEPT !.campaigns[campaignId].isActive = FALSE],
                 0, 0, NoEvent)

\* ------------------------------------------------------------ the machine
\* What a behaviour has used of its bound: the three counters that grow
\* without limit in the contract.
Events == campaignCounter + totalDonations + (now \div DAY)

\* The ids a call is made with: the allocated ones and the next one, which
\* stands for every id that does not exist.
CallIds == {c \in CampaignIds : c <= campaignCounter}

\* The crowdfunding contract right after its deployment.
InitStorage ==
    /\ campaigns = [c \in CampaignIds |-> ZeroCampaign]
    /\ campaignDonations = [c \in CampaignIds |-> <<>>]
    /\ userCampaigns = [a \in Accounts |-> <<>>]
    /\ userDonations = [a \in Accounts |-> <<>>]
    /\ campaignCounter = 0
    /\ totalCampaigns = 0
    /\ totalDonations = 0
    /\ balance = 0
    /\ donatedTo = [c \in CampaignIds |-> 0]
    /\ sentPublic = [a \in Accounts |-> [c \in CampaignIds |-> 0]]
    /\ refundedTo = [a \in Accounts |-> [c \in CampaignIds |-> 0]]
    /\ withdrawnTo = [c \in CampaignIds |-> 0]
    /\ publicDonates = [a \in Accounts |-> 0]
    /\ withdrawals = [c \in CampaignIds |-> 0]

Init ==
    /\ variant \in Variants
    /\ now = 0
    /\ InitStorage
    /\ basic = BasicDeployed
    /\ basicDonations = 0
    /\ fhevmInstance = null
    /\ encrypted = <<>>

\* The storage after a transaction with outcome r.
Commit(r) ==
    /\ campaigns' = r.s.campaigns
    /\ campaignDonations' = r.s.campaignDonations
    /\ userCampaigns' = r.s.userCampaigns
    /\ userDonations' = r.s.userDonations
    /\ campaignCounter' = r.s.campaignCounter
    /\ totalCampaigns' = r.s.totalCampaigns
    /\ totalDonations' = r.s.totalDonations
    /\ balance' = r.s.balance

CreateCampaign ==
    \E sender \in Accounts, title \in Titles, description \in Descriptions,
       category \in Categories, goal \in Goals, durationDays \in Durations,
       isAnonymous \in CampaignFlags :
        LET r == createCampaign(State, variant, sender, now, title,
                                description, category, goal, durationDays,
                                isAnonymous)
        IN  /\ Events < MaxEvents
            /\ Commit(r)
            /\ UNCHANGED <<variant, now, history, others>>

Donate ==
    \E sender \in Accounts, campaignId \in CallIds,
       isAnonymous \in BOOLEAN, value \in Amounts :
        LET r == donate(State, sender, now, campaignId, isAnonymous, value)
            ok == r.err = OK
        IN  /\ Events < MaxEvents
            /\ Commit(r)
            /\ donatedTo' =
                 IF ok THEN [donatedTo EXCEPT ![campaignId] = @ + value]
                 ELSE donatedTo
            /\ sentPublic' =
                 IF ok /\ ~isAnonymous
                 THEN [sentPublic EXCEPT ![sender][campaignId] = @ + value]
                 ELSE sentPublic
            /\ publicDonates' =
                 IF ok /\ ~isAnonymous
                 THEN [publicDonates EXCEPT ![sender] = @ + 1]
                 ELSE publicDonates
            /\ UNCHANGED <<variant, now, refundedTo, withdrawnTo, withdrawals,
                           others>>

WithdrawFunds ==
    \E sender \in Accounts, campaignId \in CallIds, accepts \in BOOLEAN :
        LET r == withdrawFunds(State, variant, sender, campaignId, accepts)
        IN  /\ Commit(r)
            /\ withdrawals' =
                 IF r.err = OK
                 THEN [withdrawals EXCEPT ![campaignId] = @ + 1]
                 ELSE withdrawals
            /\ withdrawnTo' = [withdrawnTo EXCEPT ![campaignId] = @ + r.paid]
            /\ UNCHANGED <<variant, now, donatedTo, sentPublic, refundedTo,
                           publicDonates, others>>

Refund ==
    \E sender \in Accounts, campaignId \in CallIds, accepts \in BOOLEAN :
        LET r == refund(State, variant, sender, now, campaignId, accepts)
        IN  /\ Commit(r)
            /\ refundedTo' =
                 [refundedTo EXCEPT ![sender][campaignId] = @ + r.paid]
            /\ UNCHANGED <<variant, now, donatedTo, sentPublic, withdrawnTo,
                           publicDonates, withdrawals, others>>

EmergencyPause ==
    \E sender \in Accounts, campaignId \in CallIds :
        LET r == emergencyPause(State, sender, campaignId)
        IN  /\ Commit(r)
            /\ UNCHANGED <<variant, now, history, others>>

\* A later block.
Tick ==
    /\ Events < MaxEvents
    /\ now' = now + DAY
    /\ UNCHANGED <<variant, storage, history, others>>

Next ==
    \/ CreateCampaign
    \/ Donate
    \/ WithdrawFunds
    \/ Refund
    \/ EmergencyPause
    \/ Tick

Spec == Init /\ [][Next]_vars

\* ====================================================== BasicCrowdfunding
\* The smallest of the contracts: campaigns, donations and withdrawal, no
\* refund and no anonymity.  Its PLATFORM_FEE is the constant of the same
\* name and value as FHEAnonymousCrowdfunding's.

\* The durations createCampaign is called with.
BasicDurations == {0, 1, 90, 91}

\* createCampaign's requires, in order: the first that fails gives the reason.
\* The title is not examined.
basicCreateChecks(goal, durationDays) ==
    IF ~(goal > 0) THEN "Invalid goal"
    ELSE IF ~(durationDays > 0 /\ durationDays <= 90) THEN "Invalid duration"
    ELSE OK

basicCreateCampaign(s, sender, t, title, goal, durationDays) ==
    LET e == basicCreateChecks(goal, durationDays)
        id == s.campaignCounter
    IN  IF e # OK THEN Revert(s, e)
        ELSE Success([s EXCEPT
                        !.campaignCounter = @ + 1,
                        !.campaigns[id] =
                            [creator |-> sender, title |-> title,
                             goal |-> goal, raised |-> 0,
                             deadline |-> t + durationDays * DAY,
                             isActive |-> TRUE]],
                     0, id, <<"CampaignCreated", id, sender, goal>>)

basicDonate(s, sender, t, id, value) ==
    LET campaign == s.campaigns[id]
    IN  IF ~campaign.isActive THEN Revert(s, "Campaign not active")
        ELSE IF ~(t < campaign.deadline) THEN Revert(s, "Campaign ended")
        ELSE IF ~(value > 0) THEN Revert(s, "Invalid amount")
        ELSE Success([s EXCEPT
                        !.balance = @ + value,
                        !.campaigns[id].raised = @ + value,
                        !.donations[id][sender] = @ + value],
                     0, 0, <<"DonationMade", id, sender, value>>)

basicWithdrawFunds(s, sender, id, accepts) ==
    LET campaign == s.campaigns[id]
        amount == campaign.raised - fee("FHE", campaign.raised)
        closed == [s EXCEPT !.campaigns[id].isActive = FALSE]
        sent == transfer(closed, amount, accepts)
    IN  IF campaign.creator # sender THEN Revert(s, "Not creator")
        ELSE IF ~(campaign.raised >= campaign.goal)
        THEN Revert(s, "Goal not reached")
        ELSE IF ~campaign.isActive THEN Revert(s, "Already withdrawn")
        ELSE IF ~sent.ok THEN Revert(s, TransferFailed)
        ELSE Success(sent.s, amount, 0, <<"FundsWithdrawn", id, amount>>)

basicGetCampaign(s, id) ==
    LET c == s.campaigns[id]
    IN  <<c.creator, c.title, c.goal, c.raised, c.deadline, c.isActive>>

\* The ids below i that getActiveCampaigns lists, in the order of its loop.
RECURSIVE basicFillActive(_, _, _)
basicFillActive(s, t, i) ==
    IF i = 0 THEN <<>>
    ELSE LET rest == basicFillActive(s, t, i - 1)
             c == s.campaigns[i - 1]
         IN  IF c.isActive /\ t < c.deadline
             THEN Append(rest, i - 1)
             ELSE rest

basicGetActiveCampaigns(s, t) ==
    basicFillActive(s, t, s.campaignCounter)

\* What a behaviour of BasicCrowdfunding has used of its bound.
BasicEvents == basic.campaignCounter + basicDonations + (now \div DAY)

BasicCallIds == {c \in CampaignIds : c <= basic.campaignCounter}

InitBasic ==
    /\ variant = "Basic"
    /\ now = 0
    /\ InitStorage
    /\ basic = BasicDeployed
    /\ basicDonations = 0
    /\ fhevmInstance = null
    /\ encrypted = <<>>

BasicCreateCampaign ==
    \E sender \in Accounts, title \in Titles, goal \in Goals,
       durationDays \in BasicDurations :
        LET r == basicCreateCampaign(basic, sender, now, title, goal,
                                     durationDays)
        IN  /\ BasicEvents < MaxEvents
            /\ basic' = r.s
            /\ UNCHANGED <<variant, now, storage, history, basicDonations,
                           fhevmInstance, encrypted>>

BasicDonate ==
    \E sender \in Accounts, id \in BasicCallIds, value \in Amounts :
        LET r == basicDonate(basic, sender, now, id, value)
        IN  /\ BasicEvents < MaxEvents
            /\ basic' = r.s
            /\ basicDonations' =
                 IF r.err = OK THEN basicDonations + 1 ELSE basicDonations
            /\ UNCHANGED <<variant, now, storage, history, fhevmInstance,
                           encrypted>>

BasicWithdrawFunds ==
    \E sender \in Accounts, id \in BasicCallIds, accepts \in BOOLEAN :
        LET r == basicWithdrawFunds(basic, sender, id, accepts)
        IN  /\ basic' = r.s
            /\ UNCHANGED <<variant, now, storage, history, basicDonations,
                           fhevmInstance, encrypted>>

\* A later block.
BasicTick ==
    /\ BasicEvents < MaxEvents
    /\ now' = now + DAY
    /\ UNCHANGED <<variant, storage, history, others>>

NextBasic ==
    \/ BasicCreateCampaign
    \/ BasicDonate
    \/ BasicWithdrawFunds
    \/ BasicTick

SpecBasic == InitBasic /\ [][NextBasic]_vars

\* ================================================================= fhe.ts
\* The front end's encryption utility.  A JavaScript string is the sequence
\* of its characters.  A 32-bit word is the pair of its 16-bit halves, and a
\* number (an amount in wei) is given by its significant digits k and its
\* count n of trailing zeros, k * 10^n: both go beyond the integers TLC
\* computes with.  generateProof reads and writes nothing of the module and
\* is left out.

\* The amounts encryptAmount is called with: zero, a one-digit and a
\* seven-digit number of wei, of ether (10^18 wei) and of thousands of ether.
FheDigits == {7, 1234567}
FheZeros == {0, 18, 21}
FheAmounts ==
    {[k |-> 0, n |-> 0]} \cup {[k |-> k, n |-> n] : k \in FheDigits, n \in FheZeros}

DigitChars == <<"0", "1", "2", "3", "4", "5", "6", "7", "8", "9">>
HexChars == DigitChars \o <<"a", "b", "c", "d", "e", "f">>

\* String.prototype.charCodeAt(0) of the characters a number's string has.
charCodeAt(char) ==
    IF char = "." THEN 46
    ELSE IF char = "+" THEN 43
    ELSE IF char = "e" THEN 101
    ELSE 48 + (CHOOSE d \in 0 .. 9 : DigitChars[d + 1] = char)

\* The decimal digits of a positive integer.
RECURSIVE Digits(_)
Digits(k) ==
    IF k < 10 THEN <<DigitChars[k + 1]>>
    ELSE Append(Digits(k \div 10), DigitChars[(k % 10) + 1])

Zeros(n) ==
    [i \in 1 .. n |-> "0"]

\* Number.prototype.toString() of a non-negative integer: its decimal digits
\* below 10^21, the exponent form ("1e+21", "1.234567e+24") from 10^21 on.
toString(value) ==
    IF value.k = 0 THEN <<"0">>
    ELSE LET d == Digits(value.k)
             len == Len(d) + value.n
         IN  IF len <= 21 THEN d \o Zeros(value.n)
             ELSE <<d[1]>>
                  \o (IF Len(d) > 1 THEN <<".">> \o Tail(d) ELSE <<>>)
                  \o <<"e", "+">> \o Digits(len - 1)

\* `acc << 5`: the low 32 bits of 32 * acc, read as a signed 32-bit integer
\* (the high half carries the sign).
shl5(acc) ==
    LET lo == acc.lo * 32
        hi == (acc.hi * 32 + lo \div 65536) % 65536
    IN  [hi |-> IF hi >= 32768 THEN hi - 65536 ELSE hi, lo |-> lo % 65536]

\* `>>> 0` of the number hi * 2^16 + lo: its value modulo 2^32.
toUint32(hi, lo) ==
    [hi |-> (hi + lo \div 65536) % 65536, lo |-> lo % 65536]

\* The reducer: `((acc << 5) - acc + char.charCodeAt(0)) >>> 0`
hashStep(acc, char) ==
    LET shifted == shl5(acc)
    IN  toUint32(shifted.hi - acc.hi, shifted.lo - acc.lo + charCodeAt(char))

\* The accumulator of `chars.reduce(hashStep, initial)` at the start and after
\* each of the first i characters.
RECURSIVE accumulated(_, _, _)
accumulated(chars, i, initial) ==
    IF i = 0 THEN <<initial>>
    ELSE LET before == accumulated(chars, i - 1, initial)
         IN  Append(before, hashStep(before[i], chars[i]))

\* `chars.reduce(hashStep, initial)`
reduce(chars, initial) ==
    accumulated(chars, Len(chars), initial)[Len(chars) + 1]

\* The four hexadecimal digits of a 16-bit half.
Nibbles(h) ==
    <<HexChars[(h \div 4096) + 1], HexChars[((h \div 256) % 16) + 1],
      HexChars[((h \div 16) % 16) + 1], HexChars[(h % 16) + 1]>>

RECURSIVE StripZeros(_)
StripZeros(s) ==
    IF Len(s) > 1 /\ Head(s) = "0" THEN StripZeros(Tail(s)) ELSE s

\* `hash.toString(16)`: no leading zeros.
toString16(w) ==
    StripZeros(Nibbles(w.hi) \o Nibbles(w.lo))

\* Mutant: the padding is left out.
padStartNothing(s, n, char) ==
    s

\* `s.padStart(n, char)`
padStart(s, n, char) ==
    IF Len(s) >= n THEN s ELSE [i \in 1 .. (n - Len(s)) |-> char] \o s

RECURSIVE repeat(_, _)
repeat(s, n) ==
    IF n = 0 THEN <<>> ELSE s \o repeat(s, n - 1)

\* `s.substring(0, end)`
substring(s, end) ==
    SubSeq(s, 1, IF Len(s) < end THEN Len(s) ELSE end)

simulateEncryption(value) ==
    LET chars == toString(value)
        hash == reduce(chars, [hi |-> 0, lo |-> 0])
        hexHash == padStart(toString16(hash), 8, "0")
    IN  <<"0", "x">> \o substring(repeat(hexHash, 8), 64)

\* The instance initializeFHE builds; its encrypt64 is simulateEncryption.
initializeFHE ==
    [initialized |-> TRUE]

\* The module's instance after the call, and the string returned.  Nothing
\* in the try block throws (logging, and toString of a number), so the
\* placeholder of the catch block is never returned.
encryptAmount(instance, amount) ==
    [fhevmInstance |-> IF instance = null THEN initializeFHE ELSE instance,
     ret |-> simulateEncryption(amount)]

getFHEInstance(instance) ==
    instance

InitFhe ==
    /\ variant = "FHE"
    /\ now = 0
    /\ InitStorage
    /\ basic = BasicDeployed
    /\ basicDonations = 0
    /\ fhevmInstance = null
    /\ encrypted = <<>>

InitializeFHE ==
    /\ fhevmInstance' = initializeFHE
    /\ UNCHANGED <<variant, now, storage, history, basic, basicDonations,
                   encrypted>>

EncryptAmount ==
    \E amount \in FheAmounts :
        LET r == encryptAmount(fhevmInstance, amount)
        IN  /\ Len(encrypted) < MaxEvents
            /\ fhevmInstance' = r.fhevmInstance
            /\ encrypted' = Append(encrypted, <<amount, r.ret>>)
            /\ UNCHANGED <<variant, now, storage, history, basic,
                           basicDonations>>

NextFhe ==
    \/ InitializeFHE
    \/ EncryptAmount

SpecFhe == InitFhe /\ [][NextFhe]_vars


\* ================================================================ claims
Allocated == {c \in CampaignIds : c < campaignCounter}

RECURSIVE SumAmounts(_)
SumAmounts(donations) ==
    IF donations = <<>> THEN 0
    ELSE Head(donations).amount + SumAmounts(Tail(donations))

\* The records of `donations` whose donor field is `a`.
OwnRecords(donations, a) ==
    SelectSeq(donations, LAMBDA d : d.donor = a)

\* C1: for every campaign, raised equals the sum of the amount fields of all
\* of its donation records (a refunded record counts 0, an anonymous record
\* counts its amount).
C1_RaisedIsSumOfDonations ==
    \A c \in CampaignIds :
        campaigns[c].raised = SumAmounts(campaignDonations[c])

\* A campaign holding a refunded record beside an anonymous one that still
\* counts.
C1_Witness ==
    \E c \in Allocated :
        /\ Len(campaignDonations[c]) = 2
        /\ \E i, j \in 1 .. 2 :
              /\ campaignDonations[c][i].amount = 0
              /\ ~campaignDonations[c][i].isAnonymous
              /\ campaignDonations[c][j].isAnonymous
              /\ campaignDonations[c][j].amount > 0
        /\ campaigns[c].raised > 0

\* C2: fundsWithdrawn goes from false to true at most once, only where
\* goalReached is true, and never back; fundsWithdrawn implies goalReached;
\* after a successful withdrawal every withdrawFunds call of the creator fails
\* with "Funds already withdrawn", pays nothing and changes nothing.
C2_State ==
    \A c \in CampaignIds :
        /\ withdrawals[c] <= 1
        /\ campaigns[c].fundsWithdrawn <=> withdrawals[c] = 1
        /\ campaigns[c].fundsWithdrawn => campaigns[c].goalReached
        /\ withdrawals[c] >= 1 =>
             \A accepts \in BOOLEAN :
                LET r == withdrawFunds(State, variant, campaigns[c].creator, c,
                                       accepts)
                IN  /\ r.err = "Funds already withdrawn"
                    /\ r.paid = 0
                    /\ r.s = State

C2_Step ==
    \A c \in CampaignIds :
        /\ campaigns[c].fundsWithdrawn => campaigns'[c].fundsWithdrawn
        /\ (~campaigns[c].fundsWithdrawn /\ campaigns'[c].fundsWithdrawn) =>
              /\ campaigns[c].goalReached
              /\ withdrawals[c] = 0
              /\ withdrawals'[c] = 1

C2_WithdrawnAtMostOnce == [](C2_State) /\ [][C2_Step]_vars

\* The creator calls again after a successful withdrawal.
C2_Witness ==
    \E c \in Allocated :
        /\ withdrawals[c] = 1
        /\ campaigns[c].fundsWithdrawn
        /\ withdrawFunds(State, variant, campaigns[c].creator, c, TRUE).err
             = "Funds already withdrawn"

\* C3: a successful refund of campaign c by a pays a exactly the sum of the
\* current amounts of c's records whose donor is a and takes exactly that sum
\* off raised; the total refunded to a from c never exceeds what a gave to c in
\* non-anonymous donations.
C3_State ==
    \A a \in Accounts, c \in CampaignIds :
        refundedTo[a][c] <= sentPublic[a][c]

C3_Step ==
    \A a \in Accounts, c \in CampaignIds :
        refundedTo'[a][c] # refundedTo[a][c] =>
            LET own == SumAmounts(OwnRecords(campaignDonations[c], a))
            IN  /\ refundedTo'[a][c] = refundedTo[a][c] + own
                /\ campaigns'[c].raised = campaigns[c].raised - own
                /\ balance' = balance - own
                /\ own > 0

C3_RefundIsOwnPublicSum == [](C3_State) /\ [][C3_Step]_vars

\* a has been refunded while a record that is not a's keeps its amount.
C3_Witness ==
    \E a \in Accounts, c \in Allocated :
        /\ refundedTo[a][c] = 30
        /\ \E i \in DOMAIN campaignDonations[c] :
              /\ campaignDonations[c][i].donor # a
              /\ campaignDonations[c][i].amount = 30
        /\ campaigns[c].raised = 30

\* C4: after a successful refund of c by a, every later refund of c by a fails
\* with "No donations to refund", pays nothing and changes nothing.
C4_SecondRefundFails ==
    \A a \in Accounts, c \in CampaignIds :
        refundedTo[a][c] > 0 =>
            \A accepts \in BOOLEAN :
                LET r == refund(State, variant, a, now, c, accepts)
                IN  /\ r.err = "No donations to refund"
                    /\ r.paid = 0
                    /\ r.s = State

\* Both donors of a campaign were refunded, and the first calls again.
C4_Witness ==
    \E a, b \in Accounts, c \in Allocated :
        /\ a # b
        /\ refundedTo[a][c] > 0
        /\ refundedTo[b][c] > 0
        /\ refund(State, variant, a, now, c, TRUE).err = "No donations to refund"

\* C5: goalReached is monotonic: once true for a campaign it stays true.
C5_GoalReachedMonotonic ==
    [][\A c \in CampaignIds :
          campaigns[c].goalReached => campaigns'[c].goalReached]_vars

\* A campaign that reached its goal, was withdrawn, and outlived its deadline.
C5_Witness ==
    \E c \in Allocated :
        /\ campaigns[c].goalReached
        /\ campaigns[c].fundsWithdrawn
        /\ now >= campaigns[c].deadline

\* C6: an anonymous donate leaves userDonations unchanged for every account
\* and stores address(0) as the record's donor; the length of userDonations[u]
\* is the number of successful non-anonymous donate calls of u.
C6_AnonymousNotIndexed ==
    /\ \A u \in Accounts : Len(userDonations[u]) = publicDonates[u]
    /\ \A a \in Accounts, c \in CallIds, value \in Amounts :
          LET r == donate(State, a, now, c, TRUE, value)
              list == r.s.campaignDonations[c]
          IN  r.err = OK =>
                /\ r.s.userDonations = userDonations
                /\ Len(list) = Len(campaignDonations[c]) + 1
                /\ list[Len(list)].donor = Address0
                /\ list[Len(list)].isAnonymous

\* A campaign with an anonymous and a public record, and one index entry in all.
C6_Witness ==
    \E c \in Allocated, u \in Accounts :
        /\ Len(campaignDonations[c]) = 2
        /\ campaignDonations[c][1].isAnonymous
        /\ campaignDonations[c][1].donor = Address0
        /\ campaignDonations[c][2].donor = u
        /\ userDonations[u] = <<c>>
        /\ \A w \in Accounts \ {u} : userDonations[w] = <<>>

\* What C7 says of one state.
C7_Holds ==
    \A a, b \in Accounts, c \in CallIds, value \in Amounts :
        donate(State, a, now, c, TRUE, value)
          = donate(State, b, now, c, TRUE, value)

\* C7: the outcome of an anonymous donate (the whole contract state after it
\* and the DonationMade event) is the same whichever account sends it.
C7_AnonymousUnlinkable == [](C7_Holds)

\* An anonymous donation was accepted, and either account could send another.
C7_Witness ==
    \E c \in Allocated :
        /\ Len(campaignDonations[c]) = 1
        /\ campaignDonations[c][1].isAnonymous
        /\ campaignDonations[c][1].amount = 30
        /\ \A u \in Accounts :
              /\ userDonations[u] = <<>>
              /\ donate(State, u, now, c, TRUE, 30).err = OK

\* C8: withdrawFunds by a fails, pays nothing and changes nothing when a is not
\* the creator, when goalReached is false, when fundsWithdrawn is true or when
\* raised is 0, with the error of the first check that fails; it succeeds only
\* when none of these holds.
C8_WithdrawGuards ==
    \A a \in Accounts, c \in Allocated, accepts \in BOOLEAN :
        LET r == withdrawFunds(State, variant, a, c, accepts)
            k == campaigns[c]
            notCreator == k.creator # a
            blocked == \/ notCreator
                       \/ ~k.goalReached
                       \/ k.fundsWithdrawn
                       \/ k.raised = 0
        IN  /\ blocked => (r.err # OK /\ r.paid = 0 /\ r.s = State)
            /\ notCreator => r.err = "Not campaign creator"
            /\ (~notCreator /\ ~k.goalReached) => r.err = "Goal not reached"
            /\ (~notCreator /\ k.goalReached /\ k.fundsWithdrawn) =>
                  r.err = "Funds already withdrawn"
            /\ (~notCreator /\ k.goalReached /\ ~k.fundsWithdrawn
                  /\ k.raised = 0) => r.err = "No funds to withdraw"
            /\ r.err = OK => ~blocked

\* Someone else than the creator calls on a campaign ready to be withdrawn,
\* and the creator calls on one that has not reached its goal.
C8_Witness ==
    \E a \in Accounts, c, d \in Allocated :
        /\ campaigns[c].goalReached
        /\ ~campaigns[c].fundsWithdrawn
        /\ campaigns[c].creator # a
        /\ withdrawFunds(State, variant, a, c, TRUE).err = "Not campaign creator"
        /\ campaigns[d].creator = a
        /\ campaigns[d].raised > 0
        /\ withdrawFunds(State, variant, a, d, TRUE).err = "Goal not reached"

\* C9: a successful withdrawFunds sets fundsWithdrawn, clears isActive, leaves
\* raised unchanged and pays the creator raised - floor(raised * 10 / 1000);
\* payout plus fee is raised and the payout never exceeds raised.
C9_Step ==
    \A c \in CampaignIds :
        withdrawals'[c] # withdrawals[c] =>
            LET raised == campaigns[c].raised
                payout == withdrawnTo'[c] - withdrawnTo[c]
            IN  /\ campaigns'[c].fundsWithdrawn
                /\ ~campaigns'[c].isActive
                /\ campaigns'[c].raised = raised
                /\ payout = raised - ((raised * 10) \div 1000)
                /\ payout + fee(variant, raised) = raised
                /\ payout <= raised
                /\ balance' = balance - payout

C9_WithdrawPaysRaisedLessFee == [][C9_Step]_vars

\* raised = 200 pays 198.
C9_Witness ==
    \E c \in Allocated :
        /\ campaigns[c].raised = 200
        /\ campaigns[c].fundsWithdrawn
        /\ ~campaigns[c].isActive
        /\ withdrawnTo[c] = 198

\* C10: when the value transfer at the end of withdrawFunds or refund fails,
\* the call fails and the contract state is the state before the call.
C10_FailedTransferAborts ==
    \A a \in Accounts, c \in CallIds :
        LET w == withdrawFunds(State, variant, a, c, FALSE)
            f == refund(State, variant, a, now, c, FALSE)
        IN  /\ w.err # OK /\ w.paid = 0 /\ w.s = State
            /\ f.err # OK /\ f.paid = 0 /\ f.s = State
            /\ w.err = TransferFailed =>
                  withdrawFunds(w.s, variant, a, c, TRUE).err = OK
            /\ f.err = TransferFailed =>
                  refund(f.s, variant, a, now, c, TRUE).err = OK

\* A refund whose loop has zeroed two records stops at the transfer, and the
\* records, raised and the balance are those before the call.
C10_Witness ==
    \E a \in Accounts, c \in Allocated :
        LET f == refund(State, variant, a, now, c, FALSE)
        IN  /\ f.err = TransferFailed
            /\ Len(campaignDonations[c]) = 2
            /\ \A i \in 1 .. 2 :
                  /\ campaignDonations[c][i].donor = a
                  /\ f.s.campaignDonations[c][i].amount = 30
            /\ f.s.campaigns[c].raised = 60
            /\ f.s.balance = 60

\* C11: every call of createCampaign, donate, withdrawFunds, refund or
\* emergencyPause that fails leaves the whole contract state (campaigns,
\* donation lists, user indices, counters, balance) as it was before the call,
\* pays nothing and emits nothing; a refund that finds nothing to refund has not
\* changed a donation record.
Failed(r) ==
    r.err # OK => (r.s = State /\ r.paid = 0 /\ r.event = NoEvent)

C11_Calls ==
    /\ \A a \in Accounts, title \in Titles, description \in Descriptions,
          category \in Categories, goal \in Goals, durationDays \in Durations,
          isAnonymous \in CampaignFlags :
          Failed(createCampaign(State, variant, a, now, title, description,
                                category, goal, durationDays, isAnonymous))
    /\ \A a \in Accounts, c \in CallIds :
          /\ \A isAnonymous \in BOOLEAN, value \in Amounts :
                Failed(donate(State, a, now, c, isAnonymous, value))
          /\ \A accepts \in BOOLEAN :
                /\ Failed(withdrawFunds(State, variant, a, c, accepts))
                /\ Failed(refund(State, variant, a, now, c, accepts))
                /\ LET f == refund(State, variant, a, now, c, accepts)
                   IN  f.err = "No donations to refund" =>
                          f.s.campaignDonations = campaignDonations
          /\ Failed(emergencyPause(State, a, c))

\* C11: in every reachable state, a failed call of any of the five operations
\* leaves the contract state as it was.
C11_FailedCallChangesNothing == [](C11_Calls)

\* On an expired campaign holding the caller's refunded record and a record of
\* someone else that still counts, the caller's refund finds nothing, a
\* stranger's pause and withdrawal are refused, and so is a donation.
C11_Witness ==
    \E a, b \in Accounts, c \in Allocated :
        /\ a # b
        /\ campaigns[c].creator = b
        /\ Len(campaignDonations[c]) = 2
        /\ campaignDonations[c][1].donor = a
        /\ campaignDonations[c][1].amount = 0
        /\ campaignDonations[c][2].amount = 30
        /\ refund(State, variant, a, now, c, TRUE).err = "No donations to refund"
        /\ refund(State, variant, a, now, c, TRUE).s = State
        /\ emergencyPause(State, a, c).err = "Not campaign creator"
        /\ donate(State, a, now, c, FALSE, 30).err = "Campaign ended"

\* C12: donate succeeds exactly when the campaign exists, isActive is true,
\* now < deadline and the value is positive; otherwise it fails with the error
\* of the first of these that does not hold.  goalReached does not block a
\* donation; a pause or a withdrawal does.
C12_Calls ==
    \A a \in Accounts, c \in CallIds, isAnonymous \in BOOLEAN, value \in Amounts :
        LET r == donate(State, a, now, c, isAnonymous, value)
            k == campaigns[c]
            exists == c < campaignCounter
            before == now < k.deadline
        IN  /\ r.err = OK <=> (exists /\ k.isActive /\ before /\ value > 0)
            /\ ~exists => r.err = "Campaign does not exist"
            /\ (exists /\ ~k.isActive) => r.err = "Campaign not active"
            /\ (exists /\ k.isActive /\ ~before) => r.err = "Campaign ended"
            /\ (exists /\ k.isActive /\ before /\ ~(value > 0)) =>
                  r.err = "Donation must be greater than 0"
            /\ (exists /\ k.fundsWithdrawn) => r.err = "Campaign not active"

\* C12: in every reachable state, donate succeeds exactly under its four
\* preconditions and fails with the error of the first that does not hold.
C12_DonatePreconditions == [](C12_Calls)

\* A campaign took a donation after it had reached its goal and takes another,
\* and refuses a donation of 0.
C12_Witness ==
    \E a \in Accounts, c \in Allocated :
        /\ Len(campaignDonations[c]) = 2
        /\ campaignDonations[c][1].amount = 100
        /\ campaignDonations[c][2].amount = 30
        /\ campaigns[c].goalReached
        /\ donate(State, a, now, c, FALSE, 30).err = OK
        /\ donate(State, a, now, c, FALSE, 0).err
             = "Donation must be greater than 0"
        /\ donate(State, a, now, campaignCounter, FALSE, 30).err
             = "Campaign does not exist"

\* C13: a successful donate of value v appends exactly one record (the call's
\* campaign, donor, v, now and flag) behind the records already there, adds
\* exactly v to raised and to the balance, and when goalReached was false
\* leaves it equal to (new raised >= goal).  With goal 100 and raised 0, a
\* donation of 60 gives raised 60 and goalReached false, and a following one
\* of 50 gives raised 110 and goalReached true.
ExampleAmounts == Amounts \cup {50, 60}

C13_Example(a, c) ==
    LET r1 == donate(State, a, now, c, TRUE, 60)
        r2 == donate(r1.s, a, now, c, FALSE, 50)
    IN  /\ r1.err = OK
        /\ r1.s.campaigns[c].raised = 60
        /\ ~r1.s.campaigns[c].goalReached
        /\ r2.err = OK
        /\ r2.s.campaigns[c].raised = 110
        /\ r2.s.campaigns[c].goalReached
        /\ Len(r2.s.campaignDonations[c]) = Len(campaignDonations[c]) + 2

C13_Calls ==
    \A a \in Accounts, c \in Allocated :
        /\ \A isAnonymous \in BOOLEAN, value \in ExampleAmounts :
              LET r == donate(State, a, now, c, isAnonymous, value)
                  k == campaigns[c]
                  k1 == r.s.campaigns[c]
                  list == campaignDonations[c]
                  list1 == r.s.campaignDonations[c]
              IN  r.err = OK =>
                    /\ Len(list1) = Len(list) + 1
                    /\ SubSeq(list1, 1, Len(list)) = list
                    /\ list1[Len(list1)] =
                         [campaignId |-> c,
                          donor |-> IF isAnonymous THEN Address0 ELSE a,
                          amount |-> value, timestamp |-> now,
                          isAnonymous |-> isAnonymous]
                    /\ k1.raised = k.raised + value
                    /\ r.s.balance = balance + value
                    /\ r.s.totalDonations = totalDonations + 1
                    /\ ~k.goalReached =>
                          (k1.goalReached <=> k1.raised >= k.goal)
                    /\ k.goalReached => k1.goalReached
                    /\ k1 = [k EXCEPT !.raised = k1.raised,
                                      !.goalReached = k1.goalReached]
        /\ (campaigns[c].goal = 100 /\ campaigns[c].raised = 0
              /\ campaigns[c].isActive /\ now < campaigns[c].deadline) =>
                 C13_Example(a, c)

\* C13: in every reachable state, a successful donate appends one record, adds
\* its value to raised and sets goalReached exactly when the goal is met.
C13_DonateEffect == [](C13_Calls)

\* One campaign was brought to exactly its goal by a single donation, another
\* was left below it, and a third donation there would carry it past.
C13_Witness ==
    \E a \in Accounts, c, d \in Allocated :
        /\ campaigns[c].goal = 100
        /\ campaignDonations[c] # <<>>
        /\ campaigns[c].raised = 100
        /\ campaigns[c].goalReached
        /\ campaigns[d].goal = 100
        /\ Len(campaignDonations[d]) = 1
        /\ campaigns[d].raised = 30
        /\ ~campaigns[d].goalReached
        /\ donate(State, a, now, d, FALSE, 100).s.campaigns[d].goalReached

\* C14: createCampaign fails when the title is empty, the description is empty,
\* the goal is 0 or durationDays is outside [1, 365] (0 and 366 refused, 1 and
\* 365 accepted) and succeeds otherwise; a failed createCampaign leaves
\* campaignCounter, totalCampaigns, campaigns and userCampaigns unchanged, and
\* the creation that follows it gets the id it would have got without it.
DurationEdges == {0, 1, 365, 366}

C14_Calls ==
    \A a \in Accounts, title \in Titles, description \in Descriptions,
       category \in Categories, goal \in Goals, durationDays \in DurationEdges,
       isAnonymous \in CampaignFlags :
        LET r == createCampaign(State, variant, a, now, title, description,
                                category, goal, durationDays, isAnonymous)
            bad == \/ title = ""
                   \/ description = ""
                   \/ goal = 0
                   \/ durationDays < 1
                   \/ durationDays > 365
            next == createCampaign(r.s, variant, a, now, "T", "D", category,
                                   100, 1, isAnonymous)
        IN  /\ r.err # OK <=> bad
            /\ bad =>
                 /\ r.s.campaignCounter = campaignCounter
                 /\ r.s.totalCampaigns = totalCampaigns
                 /\ r.s.campaigns = campaigns
                 /\ r.s.userCampaigns = userCampaigns
                 /\ next.err = OK
                 /\ next.ret = campaignCounter
            /\ ~bad => r.ret = campaignCounter

\* C14: in every reachable state, createCampaign refuses the invalid inputs
\* and a refused creation allocates nothing.
C14_CreateValidation == [](C14_Calls)

\* After two campaigns, a creation with an empty title is refused and the one
\* that follows it gets id 2; 365 days are accepted and 366 refused.
C14_Witness ==
    \E a \in Accounts :
        LET r == createCampaign(State, variant, a, now, "", "D", "C", 100, 1,
                                TRUE)
        IN  /\ campaignCounter = 2
            /\ campaigns[1].creator = a
            /\ r.err = "Title cannot be empty"
            /\ r.s.campaignCounter = 2
            /\ createCampaign(r.s, variant, a, now, "T", "D", "C", 100, 365,
                              TRUE).ret = 2
            /\ createCampaign(State, variant, a, now, "T", "D", "C", 100, 366,
                              TRUE).err = "Invalid duration"
            /\ createCampaign(State, variant, a, now, "T", "D", "C", 100, 0,
                              TRUE).err = "Invalid duration"

\* C15: a successful createCampaign returns the number of campaigns created
\* before it, stores under that id a record with the id, the caller as creator,
\* raised 0, isActive true, goalReached and fundsWithdrawn false and deadline
\* now + durationDays days, appends the id to the caller's campaign index and
\* touches no other record; every id below campaignCounter holds the record of
\* one campaign and is listed once, in its creator's index; getCampaign succeeds
\* exactly for the ids below campaignCounter and fails with "Campaign does not
\* exist" for the others.
IdsUpTo(n) == [i \in 1 .. n |-> i - 1]

C15_State ==
    /\ campaignCounter = totalCampaigns
    /\ \A c \in CampaignIds :
          /\ c < campaignCounter =>
                (campaigns[c].id = c /\ campaigns[c].creator \in Accounts)
          /\ ~(c < campaignCounter) => campaigns[c] = ZeroCampaign
          /\ LET g == getCampaign(State, c)
             IN  /\ g.err = OK <=> c < campaignCounter
                 /\ g.err = OK => (g.ret = campaigns[c] /\ g.ret.id = c)
                 /\ g.err # OK => g.err = "Campaign does not exist"
                 /\ g.s = State
    /\ \A a \in Accounts :
          userCampaigns[a] =
              SelectSeq(IdsUpTo(campaignCounter),
                        LAMBDA c : campaigns[c].creator = a)

C15_Create ==
    \A a \in Accounts, category \in Categories, durationDays \in {1, 365},
       isAnonymous \in CampaignFlags :
        LET r == createCampaign(State, variant, a, now, "T", "D", category, 100,
                                durationDays, isAnonymous)
            k == r.s.campaigns[r.ret]
        IN  /\ r.err = OK
            /\ r.ret = campaignCounter
            /\ r.s.campaignCounter = campaignCounter + 1
            /\ r.s.totalCampaigns = totalCampaigns + 1
            /\ k = [ZeroCampaign EXCEPT
                      !.id = campaignCounter, !.creator = a, !.title = "T",
                      !.description = "D", !.category = category, !.goal = 100,
                      !.deadline = now + durationDays * 86400,
                      !.isActive = TRUE, !.isAnonymous = k.isAnonymous]
            /\ variant = "FHE" => k.isAnonymous = isAnonymous
            /\ r.s.userCampaigns =
                 [userCampaigns EXCEPT ![a] = Append(@, campaignCounter)]
            /\ \A c \in CampaignIds \ {campaignCounter} :
                  r.s.campaigns[c] = campaigns[c]
            /\ r.s.campaignDonations = campaignDonations
            /\ r.s.userDonations = userDonations
            /\ r.s.totalDonations = totalDonations
            /\ r.s.balance = balance

\* C15: ids are handed out in sequence, the record is the one the call
\* describes, and getCampaign finds exactly the ids handed out.
C15_SequentialIds == [](C15_State /\ C15_Create)

\* Two accounts created campaigns 0 and 1 a day apart; the second is returned
\* by getCampaign, id 2 is not found, and the next creation would get it.
C15_Witness ==
    \E a, b \in Accounts :
        /\ a # b
        /\ campaignCounter = 2
        /\ now = DAY
        /\ campaigns[0].creator = a /\ campaigns[0].deadline = DAY
        /\ campaigns[1].creator = b /\ campaigns[1].deadline = 2 * DAY
        /\ userCampaigns[a] = <<0>>
        /\ userCampaigns[b] = <<1>>
        /\ getCampaign(State, 1).ret.id = 1
        /\ getCampaign(State, 2).err = "Campaign does not exist"
        /\ createCampaign(State, variant, a, now, "T", "D", "C", 100, 1,
                          TRUE).ret = 2

\* C16: refund fails with "Campaign still active" while now < deadline and with
\* "Goal was reached" on an expired campaign whose goalReached is true, paying
\* nothing; a campaign that has paid a refund has not reached its goal, and no
\* campaign has both a successful withdrawal and a successful refund.
Refunded(c) == \E a \in Accounts : refundedTo[a][c] > 0

C16_RefundOnlyAfterFailure ==
    \A c \in Allocated :
        /\ \A a \in Accounts, accepts \in BOOLEAN :
              LET r == refund(State, variant, a, now, c, accepts)
              IN  /\ now < campaigns[c].deadline =>
                        (r.err = "Campaign still active" /\ r.paid = 0)
                  /\ (now >= campaigns[c].deadline /\ campaigns[c].goalReached) =>
                        (r.err = "Goal was reached" /\ r.paid = 0)
                  /\ r.err = OK =>
                        /\ now >= campaigns[c].deadline
                        /\ ~campaigns[c].goalReached
                        /\ withdrawals[c] = 0
        /\ Refunded(c) =>
              /\ now >= campaigns[c].deadline
              /\ ~campaigns[c].goalReached
              /\ ~campaigns[c].fundsWithdrawn
        /\ ~(withdrawals[c] > 0 /\ Refunded(c))

\* A donor asks back a donation to a campaign that reached its goal, was
\* withdrawn and has expired; on a campaign still running the refund is early.
C16_Witness ==
    \E a \in Accounts, c, d \in Allocated :
        /\ withdrawals[c] = 1
        /\ now >= campaigns[c].deadline
        /\ campaignDonations[c][1].donor = a
        /\ campaignDonations[c][1].amount = 100
        /\ refund(State, variant, a, now, c, TRUE).err = "Goal was reached"
        /\ now < campaigns[d].deadline
        /\ refund(State, variant, a, now, d, TRUE).err = "Campaign still active"

\* C17: in every step each campaign's donation list keeps its records in place
\* and grows by at most one record at its end; a record that changes has only
\* its amount set to 0, in a refund of that campaign paid to the account in
\* the record's donor field; a record whose donor is address(0) never changes.
C17_Step ==
    \A c \in CampaignIds :
        LET old == campaignDonations[c]
            new == campaignDonations'[c]
        IN  /\ Len(new) >= Len(old)
            /\ Len(new) <= Len(old) + 1
            /\ \A i \in 1 .. Len(old) :
                  \/ new[i] = old[i]
                  \/ /\ new[i] = [old[i] EXCEPT !.amount = 0]
                     /\ old[i].donor \in Accounts
                     /\ refundedTo'[old[i].donor][c]
                          >= refundedTo[old[i].donor][c] + old[i].amount
                     /\ \A j \in 1 .. Len(old) :
                           new[j] # old[j] => old[j].donor = old[i].donor
            /\ \A i \in 1 .. Len(old) :
                  old[i].donor = Address0 => new[i] = old[i]

\* C17: every step keeps the donation lists append-only, zeroing only amounts
\* refunded to their donor.
C17_DonationsAppendOnly == [][C17_Step]_vars

\* After the refund of the public record behind it, an anonymous record still
\* holds its amount, and no account can get it refunded.
C17_Witness ==
    \E a \in Accounts, c \in Allocated :
        /\ Len(campaignDonations[c]) = 2
        /\ campaignDonations[c][1].donor = Address0
        /\ campaignDonations[c][1].amount = 30
        /\ campaignDonations[c][2].donor = a
        /\ campaignDonations[c][2].amount = 0
        /\ refundedTo[a][c] = 30
        /\ \A u \in Accounts :
              refund(State, variant, u, now, c, TRUE).err # OK

\* C18: emergencyPause on a campaign fails with "Not campaign creator", changing
\* nothing, unless the caller is its creator (on an id never allocated it fails
\* with "Campaign does not exist"); the creator's call succeeds, sets isActive
\* to false and changes nothing else; in the state it leaves every donate to
\* the campaign fails with "Campaign not active"; and no step of any operation
\* takes a campaign's isActive from false to true.
C18_State ==
    \A a \in Accounts, c \in CallIds :
        LET r == emergencyPause(State, a, c)
        IN  /\ ~(c < campaignCounter) =>
                  (r.err = "Campaign does not exist" /\ r.s = State)
            /\ (c < campaignCounter /\ campaigns[c].creator # a) =>
                  (r.err = "Not campaign creator" /\ r.s = State)
            /\ (c < campaignCounter /\ campaigns[c].creator = a) =>
                  /\ r.err = OK
                  /\ r.paid = 0
                  /\ r.s = [State EXCEPT !.campaigns[c].isActive = FALSE]
                  /\ \A u \in Accounts, isAnonymous \in BOOLEAN,
                        value \in Amounts :
                        donate(r.s, u, now, c, isAnonymous, value).err
                          = "Campaign not active"

C18_Step ==
    \A c \in CampaignIds :
        (c < campaignCounter /\ ~campaigns[c].isActive) =>
            ~campaigns'[c].isActive

\* C18: only the creator pauses, the pause clears isActive and nothing else,
\* donations are then refused, and isActive never comes back.
C18_PauseIsFinal == [](C18_State) /\ [][C18_Step]_vars

\* A campaign paused with a donation in it, a day before its deadline: its
\* raised and its record are as they were, a donation is refused, a stranger's
\* pause is refused, and a second pause by the creator changes nothing.
C18_Witness ==
    \E a, b \in Accounts, c \in Allocated :
        /\ a # b
        /\ campaigns[c].creator = a
        /\ ~campaigns[c].isActive
        /\ ~campaigns[c].fundsWithdrawn
        /\ now < campaigns[c].deadline
        /\ campaigns[c].raised = 30
        /\ Len(campaignDonations[c]) = 1
        /\ donate(State, b, now, c, FALSE, 30).err = "Campaign not active"
        /\ emergencyPause(State, b, c).err = "Not campaign creator"
        /\ emergencyPause(State, a, c).s = State

\* C19: whatever the order in which the accounts' calls on a campaign are
\* executed, raised is what the campaign took in donations less what it paid
\* in refunds, an account's refunds and its live records add up to its public
\* donations, and a campaign is withdrawn at most once, for raised less the
\* fee.  withdrawFunds and refund make all their writes before the transfer
\* and none after it: in the state at the transfer a second withdrawFunds
\* fails with "Funds already withdrawn", a second refund by the same caller
\* fails with "No donations to refund", neither pays, and another donor's
\* refund pays that donor's own records only.
RECURSIVE SumOver(_, _)
SumOver(f, S) ==
    IF S = {} THEN 0
    ELSE LET x == CHOOSE y \in S : TRUE
         IN  f[x] + SumOver(f, S \ {x})

C19_Ledger ==
    \A c \in CampaignIds :
        /\ campaigns[c].raised
             = donatedTo[c] - SumOver([a \in Accounts |-> refundedTo[a][c]],
                                      Accounts)
        /\ \A a \in Accounts :
              sentPublic[a][c]
                = refundedTo[a][c]
                    + SumAmounts(OwnRecords(campaignDonations[c], a))
        /\ withdrawals[c] <= 1
        /\ withdrawnTo[c] =
             IF withdrawals[c] = 1
             THEN campaigns[c].raised - fee(variant, campaigns[c].raised)
             ELSE 0

C19_AtWithdrawTransfer ==
    \A a \in Accounts, c \in Allocated :
        LET w == withdrawFunds(State, variant, a, c, TRUE)
            m == withdrawCommit(State, c)
        IN  w.err = OK =>
              /\ m.balance = balance
              /\ w.s = [m EXCEPT !.balance = @ - w.paid]
              /\ \A u \in Accounts, accepts \in BOOLEAN :
                    /\ withdrawFunds(m, variant, u, c, accepts).err # OK
                    /\ withdrawFunds(m, variant, u, c, accepts).paid = 0
                    /\ refund(m, variant, u, now, c, accepts).err # OK
                    /\ refund(m, variant, u, now, c, accepts).paid = 0
              /\ withdrawFunds(m, variant, a, c, TRUE).err
                   = "Funds already withdrawn"

C19_AtRefundTransfer ==
    \A a \in Accounts, c \in Allocated :
        LET f == refund(State, variant, a, now, c, TRUE)
            m == refundCommit(State, variant, a, c)
        IN  f.err = OK =>
              /\ m.balance = balance
              /\ m.campaigns[c].raised = campaigns[c].raised - f.paid
              /\ f.s = [m EXCEPT !.balance = @ - f.paid]
              /\ \A accepts \in BOOLEAN :
                    /\ refund(m, variant, a, now, c, accepts).err
                         = "No donations to refund"
                    /\ refund(m, variant, a, now, c, accepts).paid = 0
              /\ \A u \in Accounts, accepts \in BOOLEAN :
                    /\ withdrawFunds(m, variant, u, c, accepts).err # OK
                    /\ withdrawFunds(m, variant, u, c, accepts).paid = 0
              /\ \A u \in Accounts \ {a} :
                    refund(m, variant, u, now, c, TRUE).paid
                      = SumAmounts(OwnRecords(campaignDonations[c], u))

\* C19: in every reachable state the ledger adds up, and a second call at the
\* transfer of withdrawFunds or refund pays nothing.
C19_NoLostUpdateNoDoublePayout ==
    [](C19_Ledger /\ C19_AtWithdrawTransfer /\ C19_AtRefundTransfer)

\* Both accounts gave to a campaign that one of them created; the creator's
\* withdrawal would succeed, and at its transfer the value is still in the
\* contract while a second withdrawal finds the funds already withdrawn.
C19_Witness ==
    \E a, b \in Accounts, c \in Allocated :
        LET m == withdrawCommit(State, c)
        IN  /\ a # b
            /\ campaigns[c].creator = a
            /\ sentPublic[a][c] = 30
            /\ sentPublic[b][c] = 100
            /\ donatedTo[c] = 130
            /\ withdrawFunds(State, variant, a, c, TRUE).paid = 129
            /\ m.balance = 130
            /\ m.campaigns[c].fundsWithdrawn
            /\ withdrawFunds(m, variant, a, c, TRUE).err
                 = "Funds already withdrawn"

\* The calls of the four campaign operations on campaign c, and the outcome of
\* one of them in contract state s.
Calls(c) ==
    [op : {"donate"}, c : {c}, sender : Accounts, isAnonymous : BOOLEAN,
     value : Amounts, accepts : {TRUE}]
      \cup [op : {"withdrawFunds", "refund"}, c : {c}, sender : Accounts,
            isAnonymous : {FALSE}, value : {0}, accepts : BOOLEAN]
      \cup [op : {"emergencyPause"}, c : {c}, sender : Accounts,
            isAnonymous : {FALSE}, value : {0}, accepts : {TRUE}]

Apply(s, x) ==
    CASE x.op = "donate" ->
           donate(s, x.sender, now, x.c, x.isAnonymous, x.value)
      [] x.op = "withdrawFunds" ->
           withdrawFunds(s, variant, x.sender, x.c, x.accepts)
      [] x.op = "refund" ->
           refund(s, variant, x.sender, now, x.c, x.accepts)
      [] x.op = "emergencyPause" ->
           emergencyPause(s, x.sender, x.c)

\* A call on campaign c leaves the record and the list of every other campaign
\* as they were.
OtherCampaignsUntouched ==
    \A c \in CallIds : \A x \in Calls(c) :
        LET r == Apply(State, x)
        IN  \A d \in CampaignIds \ {c} :
                /\ r.s.campaigns[d] = campaigns[d]
                /\ r.s.campaignDonations[d] = campaignDonations[d]

\* The calls on c that can take effect: a donation of some value, a payment
\* the recipient accepts, a pause.
Effective(c) == {x \in Calls(c) : x.accepts /\ (x.op = "donate" => x.value > 0)}

IgnoringUserDonations(s) == [s EXCEPT !.userDonations = <<>>]

\* C20 as stated: a call on campaign c leaves every other campaign's record
\* and donation list unchanged, and two calls on different campaigns reach the
\* same final state in either order.
C20_AnyOrderSameState ==
    /\ OtherCampaignsUntouched
    /\ \A c, d \in Allocated : \A x \in Effective(c), y \in Effective(d) :
          c < d =>
            Apply(Apply(State, x).s, y).s = Apply(Apply(State, y).s, x).s

\* C20, amended: a call on campaign c leaves every other campaign's record and
\* donation list unchanged; two calls on different campaigns have the same
\* outcomes and reach the same final state in either order, except that two
\* successful non-anonymous donations of one account leave that account's
\* userDonations index listing the two ids in the order of execution, the
\* rest of the state being the same.
C20_Independent ==
    /\ OtherCampaignsUntouched
    /\ \A c \in Allocated : \A x \in Effective(c) :
          LET x1 == Apply(State, x)
          IN  \A d \in Allocated : c < d => \A y \in Effective(d) :
                LET y1 == Apply(State, y)
                    y2 == Apply(x1.s, y)
                    x2 == Apply(y1.s, x)
                    sameDonorTwice ==
                        /\ x.op = "donate" /\ y.op = "donate"
                        /\ ~x.isAnonymous /\ ~y.isAnonymous
                        /\ x.sender = y.sender
                        /\ x1.err = OK /\ y1.err = OK
                IN  /\ x1.err = x2.err /\ x1.paid = x2.paid
                    /\ x1.event = x2.event
                    /\ y1.err = y2.err /\ y1.paid = y2.paid
                    /\ y1.event = y2.event
                    /\ IgnoringUserDonations(y2.s) = IgnoringUserDonations(x2.s)
                    /\ ~sameDonorTwice => y2.s = x2.s
                    /\ sameDonorTwice =>
                          /\ y2.s.userDonations =
                               [userDonations EXCEPT
                                  ![x.sender] = @ \o <<x.c, y.c>>]
                          /\ x2.s.userDonations =
                               [userDonations EXCEPT
                                  ![x.sender] = @ \o <<y.c, x.c>>]

\* C20, amended: in every reachable state, calls on different campaigns do not
\* touch each other's campaign and commute, up to the order of one account's
\* userDonations entries.
C20_CampaignsIndependent == [](C20_Independent)

\* Of two campaigns one is ready to be withdrawn and the other takes
\* donations: the withdrawal and a donation succeed in either order, and two
\* donations of the account that gave before are listed in the order made.
C20_Witness ==
    \E a, b \in Accounts :
        LET w == [op |-> "withdrawFunds", c |-> 0, sender |-> a,
                  isAnonymous |-> FALSE, value |-> 0, accepts |-> TRUE]
            g == [op |-> "donate", c |-> 1, sender |-> b,
                  isAnonymous |-> FALSE, value |-> 30, accepts |-> TRUE]
        IN  /\ campaignCounter = 2
            /\ userDonations[b] = <<0>>
            /\ Apply(State, w).err = OK
            /\ Apply(Apply(State, w).s, g).err = OK
            /\ Apply(Apply(State, g).s, w).err = OK
            /\ Apply(Apply(State, g).s, w).s.userDonations[b] = <<0, 1>>
            /\ Apply(Apply(State, g).s, w).s.campaigns[0].fundsWithdrawn
            /\ LET h == [g EXCEPT !.c = 0]
               IN  /\ Apply(Apply(State, h).s, g).s.userDonations[b]
                        = <<0, 0, 1>>
                   /\ Apply(Apply(State, g).s, h).s.userDonations[b]
                        = <<0, 1, 0>>

\* C21: getAnonymousStats of an allocated id returns (a, p, t): a the number
\* of the campaign's records with isAnonymous true, p the number with
\* isAnonymous false, t the length of its list, with a + p = t; records
\* refunded to 0 are counted; the call changes no state; for an id never
\* allocated it fails with "Campaign does not exist".
C21_AnonymousStats ==
    \A c \in CallIds :
        LET g == getAnonymousStats(State, c)
            list == campaignDonations[c]
        IN  /\ g.s = State
            /\ ~(c < campaignCounter) => g.err = "Campaign does not exist"
            /\ c < campaignCounter =>
                 /\ g.err = OK
                 /\ g.ret[1] = Cardinality({i \in DOMAIN list :
                                               list[i].isAnonymous})
                 /\ g.ret[2] = Cardinality({i \in DOMAIN list :
                                               ~list[i].isAnonymous})
                 /\ g.ret[3] = Len(list)
                 /\ g.ret[1] + g.ret[2] = g.ret[3]

\* A campaign with an anonymous record and a public one that was refunded: the
\* statistics are (1, 1, 2), and the id that follows is not found.
C21_Witness ==
    \E c \in Allocated :
        /\ Len(campaignDonations[c]) = 2
        /\ campaignDonations[c][1].amount = 0
        /\ ~campaignDonations[c][1].isAnonymous
        /\ campaignDonations[c][2].isAnonymous
        /\ getAnonymousStats(State, c).ret = <<1, 1, 2>>
        /\ getAnonymousStats(State, campaignCounter).err
             = "Campaign does not exist"

\* C22: getAllActiveCampaigns at time now returns the records of exactly the
\* campaigns with isActive true and deadline > now, each once, in ascending
\* order of id, its length the number of such campaigns; a campaign that is
\* paused, withdrawn or at or past its deadline is not listed; the call
\* changes no state.
C22_ActiveCampaigns ==
    LET g == getAllActiveCampaigns(State, now)
        res == g.ret
        open == {c \in Allocated :
                    campaigns[c].isActive /\ campaigns[c].deadline > now}
    IN  /\ g.err = OK
        /\ g.s = State
        /\ Len(res) = Cardinality(open)
        /\ \A i \in DOMAIN res :
              /\ res[i].id \in open
              /\ res[i] = campaigns[res[i].id]
        /\ \A c \in open : Cardinality({i \in DOMAIN res : res[i].id = c}) = 1
        /\ \A i, j \in DOMAIN res : i < j => res[i].id < res[j].id
        /\ \A c \in Allocated :
              (\/ ~campaigns[c].isActive
               \/ campaigns[c].fundsWithdrawn
               \/ now >= campaigns[c].deadline) =>
                 \A i \in DOMAIN res : res[i].id # c

\* Of three campaigns the first is exactly at its deadline and the second is
\* paused: the third alone is listed, in the first slot.
C22_Witness ==
    LET res == getAllActiveCampaigns(State, now).ret
    IN  /\ campaignCounter = 3
        /\ now = campaigns[0].deadline
        /\ campaigns[0].isActive
        /\ ~campaigns[1].isActive
        /\ now < campaigns[1].deadline
        /\ Len(res) = 1
        /\ res[1].id = 2

\* C23: time never decreasing, once now >= deadline holds for a campaign (now
\* = deadline included) it holds from then on, every donate to the campaign
\* fails, raised never increases and goalReached never changes; a campaign
\* past its deadline with goalReached false has never been withdrawn and
\* every withdrawFunds on it fails.
Expired(c) == c < campaignCounter /\ now >= campaigns[c].deadline

C23_State ==
    \A c \in Allocated :
        now >= campaigns[c].deadline =>
            /\ \A a \in Accounts, isAnonymous \in BOOLEAN, value \in Amounts :
                  LET r == donate(State, a, now, c, isAnonymous, value)
                  IN  /\ r.err \in {"Campaign ended", "Campaign not active"}
                      /\ r.s = State
            /\ ~campaigns[c].goalReached =>
                  /\ withdrawals[c] = 0
                  /\ ~campaigns[c].fundsWithdrawn
                  /\ \A a \in Accounts, accepts \in BOOLEAN :
                        LET w == withdrawFunds(State, variant, a, c, accepts)
                        IN  /\ w.err \in {"Goal not reached",
                                          "Not campaign creator"}
                            /\ w.paid = 0

C23_Step ==
    /\ now' >= now
    /\ \A c \in CampaignIds :
          Expired(c) =>
              /\ now' >= campaigns'[c].deadline
              /\ campaigns'[c].raised <= campaigns[c].raised
              /\ campaigns'[c].goalReached = campaigns[c].goalReached
              /\ Len(campaignDonations'[c]) = Len(campaignDonations[c])

C23_ExpiredTakesNoDonation == [](C23_State) /\ [][C23_Step]_vars

\* Exactly at its deadline a campaign 70 short of its goal refuses the donation
\* that would have reached it, and its creator's withdrawal.
C23_Witness ==
    \E a \in Accounts, c \in Allocated :
        /\ now = campaigns[c].deadline
        /\ campaigns[c].isActive
        /\ campaigns[c].raised = 30
        /\ campaigns[c].creator = a
        /\ donate(State, a, now, c, FALSE, 100).err = "Campaign ended"
        /\ withdrawFunds(State, variant, a, c, TRUE).err = "Goal not reached"

\* C24: after a successful withdrawFunds on a campaign no step changes the
\* campaign's record or its donation list; every donate to it fails with
\* "Campaign not active"; every refund fails, with "Goal was reached" once the
\* deadline has passed and "Campaign still active" before; withdrawFunds fails,
\* with "Funds already withdrawn" for the creator and "Not campaign creator"
\* for the others; the creator's emergencyPause succeeds and changes nothing.
C24_State ==
    \A c \in Allocated :
        withdrawals[c] >= 1 =>
            /\ campaigns[c].fundsWithdrawn
            /\ campaigns[c].goalReached
            /\ ~campaigns[c].isActive
            /\ \A a \in Accounts :
                  /\ \A isAnonymous \in BOOLEAN, value \in Amounts :
                        LET r == donate(State, a, now, c, isAnonymous, value)
                        IN  r.err = "Campaign not active" /\ r.s = State
                  /\ \A accepts \in BOOLEAN :
                        LET f == refund(State, variant, a, now, c, accepts)
                            w == withdrawFunds(State, variant, a, c, accepts)
                        IN  /\ f.err = IF now >= campaigns[c].deadline
                                       THEN "Goal was reached"
                                       ELSE "Campaign still active"
                            /\ f.s = State /\ f.paid = 0
                            /\ w.err = IF campaigns[c].creator = a
                                       THEN "Funds already withdrawn"
                                       ELSE "Not campaign creator"
                            /\ w.s = State /\ w.paid = 0
                  /\ emergencyPause(State, a, c).s = State
                  /\ campaigns[c].creator = a =>
                        emergencyPause(State, a, c).err = OK

C24_Step ==
    \A c \in CampaignIds :
        withdrawals[c] >= 1 =>
            /\ campaigns'[c] = campaigns[c]
            /\ campaignDonations'[c] = campaignDonations[c]
            /\ withdrawals'[c] = withdrawals[c]
            /\ withdrawnTo'[c] = withdrawnTo[c]

C24_WithdrawnIsTerminal == [](C24_State) /\ [][C24_Step]_vars

\* A campaign withdrawn a day before its deadline, a second campaign created
\* after it: the first refuses a donation, a refund and a second withdrawal,
\* and its creator's pause leaves it as it is.
C24_Witness ==
    \E a \in Accounts, c, d \in Allocated :
        /\ c # d
        /\ withdrawals[c] = 1
        /\ withdrawals[d] = 0
        /\ campaigns[c].creator = a
        /\ now < campaigns[c].deadline
        /\ campaigns[c].raised = 130
        /\ donate(State, a, now, c, FALSE, 30).err = "Campaign not active"
        /\ refund(State, variant, a, now, c, TRUE).err = "Campaign still active"
        /\ withdrawFunds(State, variant, a, c, TRUE).err
             = "Funds already withdrawn"
        /\ emergencyPause(State, a, c).err = OK
        /\ emergencyPause(State, a, c).s = State

\* What C25 says of one state.
C25_Holds ==
    \A c \in Allocated :
        /\ campaigns[c].goalReached <=> campaigns[c].raised >= campaigns[c].goal
        /\ campaigns[c].goalReached => campaigns[c].raised > 0
        /\ withdrawChecks(campaigns[c]) # "No funds to withdraw"
        /\ refundChecks(campaigns[c], now) # "Funds already withdrawn"
        /\ \A a \in Accounts, accepts \in BOOLEAN :
              /\ withdrawFunds(State, variant, a, c, accepts).err
                   # "No funds to withdraw"
              /\ refund(State, variant, a, now, c, accepts).err
                   # "Funds already withdrawn"

\* C25: for every campaign, goalReached is true exactly when raised >= goal;
\* so goalReached implies raised > 0, no withdrawFunds is ever rejected by the
\* "No funds to withdraw" check and no refund by the "Funds already withdrawn"
\* check.
C25_GoalReachedIffRaised == [](C25_Holds)

\* A campaign past its goal, withdrawn and expired, whose donor asks for a
\* refund and whose creator asks for the funds again.
C25_Witness ==
    \E a \in Accounts, c \in Allocated :
        /\ campaigns[c].raised = 130
        /\ campaigns[c].goal = 100
        /\ campaigns[c].goalReached
        /\ campaigns[c].fundsWithdrawn
        /\ now >= campaigns[c].deadline
        /\ campaigns[c].creator = a
        /\ refund(State, variant, a, now, c, TRUE).err = "Goal was reached"
        /\ withdrawFunds(State, variant, a, c, TRUE).err
             = "Funds already withdrawn"

\* C26: the contract's balance is what it took in donations less what it paid
\* in withdrawals and refunds, and it is at least the sum of raised over the
\* campaigns not yet withdrawn; a withdrawFunds or a refund that passes its
\* guards, to a recipient that accepts, never fails for lack of funds.
Owed ==
    SumOver([c \in CampaignIds |->
                IF campaigns[c].fundsWithdrawn THEN 0 ELSE campaigns[c].raised],
            CampaignIds)

C26_Solvent ==
    /\ balance
         = SumOver(donatedTo, CampaignIds) - SumOver(withdrawnTo, CampaignIds)
             - SumOver([c \in CampaignIds |->
                           SumOver([a \in Accounts |-> refundedTo[a][c]],
                                   Accounts)],
                       CampaignIds)
    /\ balance >= Owed
    /\ \A a \in Accounts, c \in Allocated :
          LET w == withdrawFunds(State, variant, a, c, TRUE)
              f == refund(State, variant, a, now, c, TRUE)
          IN  /\ w.err \notin {TransferFailed, ArithmeticPanic}
              /\ f.err \notin {TransferFailed, ArithmeticPanic}
              /\ withdrawChecks(campaigns[c]) = OK =>
                    w.paid <= balance
              /\ f.err = OK => f.paid <= balance

\* One campaign was withdrawn, its fee staying behind, and another holds 30
\* that nobody may take yet: the balance is 31.
C26_Witness ==
    \E c, d \in Allocated :
        /\ withdrawals[c] = 1
        /\ withdrawnTo[c] = 99
        /\ ~campaigns[d].fundsWithdrawn
        /\ campaigns[d].raised = 30
        /\ balance = 31
        /\ Owed = 30

\* C27: the recipient accepting the transfer, withdrawFunds by the creator
\* succeeds in every state where the campaign has goalReached true and
\* fundsWithdrawn false, active or paused, before or after its deadline; refund
\* by an account with a record of its own that is not zeroed succeeds in every
\* state where now >= deadline and goalReached is false, paused or not, and
\* pays all that the account gave publicly and has not got back; until the
\* account is paid, no step takes any of that away.
LiveOwn(a, c) == SumAmounts(OwnRecords(campaignDonations[c], a))

C27_State ==
    \A c \in Allocated :
        /\ (campaigns[c].goalReached /\ ~campaigns[c].fundsWithdrawn) =>
              LET w == withdrawFunds(State, variant, campaigns[c].creator, c,
                                     TRUE)
              IN  /\ w.err = OK
                  /\ w.paid = campaigns[c].raised
                                - fee(variant, campaigns[c].raised)
        /\ \A a \in Accounts :
              (/\ now >= campaigns[c].deadline
               /\ ~campaigns[c].goalReached
               /\ LiveOwn(a, c) > 0) =>
                  LET f == refund(State, variant, a, now, c, TRUE)
                  IN  /\ f.err = OK
                      /\ f.paid = LiveOwn(a, c)
                      /\ f.paid = sentPublic[a][c] - refundedTo[a][c]

C27_Step ==
    \A a \in Accounts, c \in CampaignIds :
        (Expired(c) /\ ~campaigns[c].goalReached) =>
            \/ LiveOwn(a, c)' = LiveOwn(a, c)
            \/ refundedTo'[a][c] = refundedTo[a][c] + LiveOwn(a, c)

C27_PauseBlocksNoMoney == [](C27_State) /\ [][C27_Step]_vars

\* A campaign paused by its creator expired short of its goal: the donor's
\* refund of 30 goes through.
C27_Witness ==
    \E a, b \in Accounts, c \in Allocated :
        /\ a # b
        /\ campaigns[c].creator = b
        /\ ~campaigns[c].isActive
        /\ ~campaigns[c].goalReached
        /\ now >= campaigns[c].deadline
        /\ sentPublic[a][c] = 30
        /\ refundedTo[a][c] = 0
        /\ refund(State, variant, a, now, c, TRUE).paid = 30

\* C28: no step changes the id, creator, goal, deadline, title, description,
\* category or isAnonymous of a campaign that exists, nor the campaignId,
\* donor, timestamp or isAnonymous of a donation record that exists.
C28_Step ==
    \A c \in CampaignIds :
        /\ c < campaignCounter =>
              LET k == campaigns[c]
                  k1 == campaigns'[c]
              IN  /\ k1.id = k.id
                  /\ k1.creator = k.creator
                  /\ k1.goal = k.goal
                  /\ k1.deadline = k.deadline
                  /\ k1.title = k.title
                  /\ k1.description = k.description
                  /\ k1.category = k.category
                  /\ k1.isAnonymous = k.isAnonymous
        /\ \A i \in DOMAIN campaignDonations[c] :
              LET d == campaignDonations[c][i]
                  d1 == campaignDonations'[c][i]
              IN  /\ i \in DOMAIN campaignDonations'[c]
                  /\ d1.campaignId = d.campaignId
                  /\ d1.donor = d.donor
                  /\ d1.timestamp = d.timestamp
                  /\ d1.isAnonymous = d.isAnonymous

C28_Immutable == [][C28_Step]_vars

\* A day after its creation a campaign has been paused and one of its two
\* records refunded: the records still name their donor and their time, the
\* campaign its creator, goal and deadline.
C28_Witness ==
    \E a, b \in Accounts, c \in Allocated :
        /\ now = DAY
        /\ campaigns[c] =
             [ZeroCampaign EXCEPT
                !.id = c, !.creator = b, !.title = "T", !.description = "D",
                !.category = "C", !.goal = 100, !.deadline = DAY,
                !.raised = 30, !.isAnonymous = campaigns[c].isAnonymous]
        /\ Len(campaignDonations[c]) = 2
        /\ campaignDonations[c][1] =
             [campaignId |-> c, donor |-> a, amount |-> 0, timestamp |-> 0,
              isAnonymous |-> FALSE]
        /\ campaignDonations[c][2].amount = 30
        /\ refundedTo[a][c] = 30

\* ---------------------------------------------------------------- C29
\* The durations the validation is probed with: both sides of each limit.
BasicDurationEdges == {0, 1, 90, 91, 365, 366}

\* C29: BasicCrowdfunding's createCampaign fails when the title is empty or
\* when durationDays is outside [1, 365], and succeeds for every durationDays
\* in [1, 365] when the title is non-empty and the goal is positive.
C29_BasicCreateValidation ==
    \A sender \in Accounts, title \in Titles, goal \in Goals,
       durationDays \in BasicDurationEdges :
        LET r == basicCreateCampaign(basic, sender, now, title, goal,
                                     durationDays)
        IN  /\ (title = "" \/ durationDays < 1 \/ durationDays > 365)
                    => r.err # OK
            /\ (title # "" /\ goal > 0 /\ durationDays \in 1 .. 365)
                    => r.err = OK

\* ---------------------------------------------------------------- C30
\* The decimal digits of a number.
DecimalDigits(value) ==
    IF value.k = 0 THEN <<"0">> ELSE Digits(value.k) \o Zeros(value.n)

\* (31 * acc + code) mod 2^32, on the halves of acc.
Times31Plus(acc, code) ==
    LET lo == acc.lo * 31 + code
    IN  [hi |-> (acc.hi * 31 + lo \div 65536) % 65536, lo |-> lo % 65536]

\* acc := (31 * acc + character code) mod 2^32 from 0 over the first i
\* characters: the value at the start and after each character.
RECURSIVE Hash31Steps(_, _)
Hash31Steps(chars, i) ==
    IF i = 0 THEN <<[hi |-> 0, lo |-> 0]>>
    ELSE LET before == Hash31Steps(chars, i - 1)
         IN  Append(before, Times31Plus(before[i], charCodeAt(chars[i])))

Hash31(chars) ==
    Hash31Steps(chars, Len(chars))[Len(chars) + 1]

\* "0x" and eight times the eight hexadecimal digits of the hash of chars.
Repeated31(chars) ==
    LET w == Hash31(chars)
        h == Nibbles(w.hi) \o Nibbles(w.lo)
    IN  <<"0", "x">> \o h \o h \o h \o h \o h \o h \o h \o h

HexSet == {HexChars[i] : i \in 1 .. 16}

\* "0x" followed by exactly 64 hexadecimal characters.
IsHex64(s) ==
    /\ Len(s) = 66
    /\ s[1] = "0"
    /\ s[2] = "x"
    /\ \A i \in 3 .. 66 : s[i] \in HexSet

\* The same amount gave the same string in every call made so far, and a
\* second call right after a first returns what the first returned.
Deterministic ==
    /\ \A i, j \in DOMAIN encrypted :
           encrypted[i][1] = encrypted[j][1] => encrypted[i][2] = encrypted[j][2]
    /\ \A x \in FheAmounts :
           LET first == encryptAmount(fhevmInstance, x)
               again == encryptAmount(first.fhevmInstance, x)
           IN  /\ first.ret = again.ret
               /\ first.ret = encryptAmount(null, x).ret

\* After any encryptAmount call the instance is there.
InitializedAfterCall ==
    /\ encrypted # <<>> => getFHEInstance(fhevmInstance) # null
    /\ \A x \in FheAmounts :
           getFHEInstance(encryptAmount(fhevmInstance, x).fhevmInstance) # null

====
